---- MODULE Spec2Model ----
(***************************************************************************)
(* Rule engine of SD23035_LAB3.py: evaluate_condition, rule_matches and    *)
(* run_rules, with the operator registry OPS and the DEFAULT_RULES         *)
(* fixture.                                                                *)
(*                                                                         *)
(* Python values are tagged records of one shape: I(n) an int, S(s) a      *)
(* str, L(xs) a list of scalars.  Floats are held as integers: cgpa is     *)
(* kept in tenths (3.7 is 37), which preserves every comparison the        *)
(* fixture makes.  A dict (a fact set, a rule) is a function whose DOMAIN  *)
(* is the set of keys present, so a missing key is a key outside DOMAIN.   *)
(* A call either returns a value or raises; Python's exceptions are the    *)
(* `raised` flag.                                                          *)
(***************************************************************************)
EXTENDS Integers, Sequences, FiniteSets, TLC

VARIABLES
    facts,          \* the fact set the caller passes
    rules,          \* the rule list the caller passes to run_rules
    cond,           \* the condition passed to evaluate_condition
    rule,           \* the rule passed to rule_matches
    pc,             \* "ready": a call is about to be made, "done": it ended
    raised,         \* the call ended by raising
    value,          \* bool returned by evaluate_condition / rule_matches
    decision,       \* first component of run_rules' return tuple
    fired_sorted    \* second component of run_rules' return tuple

vars == <<facts, rules, cond, rule, pc, raised, value, decision, fired_sorted>>

(***************************************************************************)
(* Bounds of the model.                                                    *)
(***************************************************************************)
MaxInt == 1         \* int values range over 0..MaxInt
MaxConds == 2       \* generated rules hold at most MaxConds conditions
MaxRules == 2       \* generated rule lists hold at most MaxRules rules
MaxPriority == 1    \* generated priorities range over 0..MaxPriority

(***************************************************************************)
(* Python values.                                                          *)
(***************************************************************************)
I(n) == [t |-> "int", n |-> n, s |-> "", xs |-> <<>>]
S(s) == [t |-> "str", n |-> 0, s |-> s, xs |-> <<>>]
L(xs) == [t |-> "list", n |-> 0, s |-> "", xs |-> xs]

\* hash(v): ints and strs are hashable, a list raises TypeError.
Hashable(v) == v.t # "list"

\* The code points of the data strings the model compares.
CodePoints(s) ==
    CASE s = "" -> <<>>
      [] s = "A" -> <<65>>
      [] s = "B" -> <<66>>
      [] s = "AB" -> <<65, 66>>

\* Three-way comparison of two ints.
IntCmp(a, b) == IF a < b THEN "lt" ELSE IF a > b THEN "gt" ELSE "eq"

\* Lexicographic comparison of two sequences of code points (str ordering).
RECURSIVE CodeCmp(_, _)
CodeCmp(x, y) ==
    IF x = <<>> \/ y = <<>> THEN IntCmp(Len(x), Len(y))
    ELSE IF x[1] # y[1] THEN IntCmp(x[1], y[1])
    ELSE CodeCmp(Tail(x), Tail(y))

\* Ordering of two scalars: "lt", "eq", "gt", or "err" for the TypeError
\* Python raises on values of different types.
ScalarCmp(a, b) ==
    IF a.t = "int" /\ b.t = "int" THEN IntCmp(a.n, b.n)
    ELSE IF a.t = "str" /\ b.t = "str" THEN CodeCmp(CodePoints(a.s), CodePoints(b.s))
    ELSE "err"

\* Ordering of two lists: the first index where the items differ decides,
\* by the ordering of those two items; without one the lengths decide.
RECURSIVE ListCmp(_, _)
ListCmp(x, y) ==
    IF x = <<>> \/ y = <<>> THEN IntCmp(Len(x), Len(y))
    ELSE IF x[1] # y[1] THEN ScalarCmp(x[1], y[1])
    ELSE ListCmp(Tail(x), Tail(y))

\* Ordering of two Python values.
PyCmp(a, b) ==
    IF a.t = "list" /\ b.t = "list" THEN ListCmp(a.xs, b.xs)
    ELSE IF a.t = "list" \/ b.t = "list" THEN "err"
    ELSE ScalarCmp(a, b)

\* x is a contiguous subsequence of y (str containment).
IsSubstring(x, y) ==
    \E i \in 0..(Len(y) - Len(x)) : \A j \in 1..Len(x) : y[i + j] = x[j]

\* What a call produces: a returned bool or a raised exception.
Return(b) == [raised |-> FALSE, value |-> b]
Raise == [raised |-> TRUE, value |-> FALSE]

\* a in b: list membership by ==, str containment (TypeError unless a is a
\* str), TypeError on an int.
PyIn(a, b) ==
    IF b.t = "list" THEN Return(\E i \in 1..Len(b.xs) : b.xs[i] = a)
    ELSE IF b.t = "str" /\ a.t = "str" THEN
        Return(IsSubstring(CodePoints(a.s), CodePoints(b.s)))
    ELSE Raise

\* a rich comparison that holds when PyCmp gives one of `accept`.
PyOrder(a, b, accept) ==
    LET c == PyCmp(a, b) IN IF c = "err" THEN Raise ELSE Return(c \in accept)

\* The keys of the registry.
OpSymbols == {"==", "!=", ">", ">=", "<", "<=", "in", "not_in"}

\* OPS[sym](a, b).
OPS(sym, a, b) ==
    CASE sym = "==" -> Return(a = b)
      [] sym = "!=" -> Return(a # b)
      [] sym = ">" -> PyOrder(a, b, {"gt"})
      [] sym = ">=" -> PyOrder(a, b, {"gt", "eq"})
      [] sym = "<" -> PyOrder(a, b, {"lt"})
      [] sym = "<=" -> PyOrder(a, b, {"lt", "eq"})
      [] sym = "in" -> PyIn(a, b)
      [] sym = "not_in" ->
            LET r == PyIn(a, b) IN IF r.raised THEN Raise ELSE Return(~r.value)

\* key in d, for a dict d with str keys: hashing an unhashable key raises.
KeyIn(k, keys) == k.t = "str" /\ k.s \in keys

(***************************************************************************)
(* evaluate_condition                                                      *)
(***************************************************************************)
evaluate_condition(fs, c) ==
    IF Len(c) # 3 THEN Return(FALSE)
    ELSE
        LET field == c[1]
            op == c[2]
            val == c[3]
        IN  IF ~Hashable(field) THEN Raise
            ELSE IF ~KeyIn(field, DOMAIN fs) THEN Return(FALSE)
            ELSE IF ~Hashable(op) THEN Raise
            ELSE IF ~KeyIn(op, OpSymbols) THEN Return(FALSE)
            ELSE
                LET r == OPS(op.s, fs[field.s], val)
                IN  IF r.raised THEN Return(FALSE) ELSE r

(***************************************************************************)
(* rule_matches                                                            *)
(***************************************************************************)
\* d.get(key, default)
Get(d, key, default) == IF key \in DOMAIN d THEN d[key] ELSE default

\* all(evaluate_condition(facts, c) for c in cs): the generator is consumed
\* left to right, stops at the first False, and an exception escapes.
RECURSIVE all_conditions(_, _)
all_conditions(fs, cs) ==
    IF cs = <<>> THEN Return(TRUE)
    ELSE
        LET r == evaluate_condition(fs, cs[1])
        IN  IF r.raised THEN Raise
            ELSE IF ~r.value THEN Return(FALSE)
            ELSE all_conditions(fs, Tail(cs))

\* A mutant of rule_matches: only the first condition is evaluated.
rule_matches_first_condition(fs, r) ==
    LET cs == Get(r, "conditions", <<>>)
    IN  all_conditions(fs, IF cs = <<>> THEN <<>> ELSE <<cs[1]>>)

rule_matches(fs, r) == all_conditions(fs, Get(r, "conditions", <<>>))

(***************************************************************************)
(* run_rules                                                               *)
(***************************************************************************)
NO_RULE == [decision |-> "NO_RULE", reason |-> "No rules matched"]
NO_ACTION == [decision |-> "NO_ACTION", reason |-> "-"]

\* No value: what the result variables hold while no call has returned.
Unset == [decision |-> "", reason |-> ""]

\* [r for r in rs if rule_matches(facts, r)]
RECURSIVE fired_of(_, _)
fired_of(fs, rs) ==
    IF rs = <<>> THEN [raised |-> FALSE, list |-> <<>>]
    ELSE
        LET m == rule_matches(fs, rs[1])
        IN  IF m.raised THEN [raised |-> TRUE, list |-> <<>>]
            ELSE
                LET rest == fired_of(fs, Tail(rs))
                IN  IF rest.raised THEN rest
                    ELSE IF m.value
                        THEN [raised |-> FALSE, list |-> <<rs[1]>> \o rest.list]
                        ELSE rest

\* key=lambda r: r.get("priority", 0)
priority_key(r) == Get(r, "priority", 0)

Reverse(s) == [i \in 1..Len(s) |-> s[Len(s) + 1 - i]]

\* r put into the ascending sequence s behind every element whose key is
\* not greater than its own.
RECURSIVE InsertAscending(_, _)
InsertAscending(r, s) ==
    IF s = <<>> THEN <<r>>
    ELSE IF priority_key(r) < priority_key(s[1]) THEN <<r>> \o s
    ELSE <<s[1]>> \o InsertAscending(r, Tail(s))

\* The stable ascending sort list.sort performs.
RECURSIVE SortAscending(_)
SortAscending(s) ==
    IF s = <<>> THEN <<>>
    ELSE InsertAscending(s[Len(s)], SortAscending(SubSeq(s, 1, Len(s) - 1)))

\* A mutant of sorted_reverse: reverse=True left out.
sorted_ascending(s) == SortAscending(s)

\* A mutant of sorted_reverse: the ascending sort read backwards, which
\* reverses the rules of equal priority.
sorted_then_reversed(s) == Reverse(SortAscending(s))

\* sorted(s, key=priority_key, reverse=True): the list is reversed, sorted
\* stably in ascending order and reversed again.
sorted_reverse(s) == Reverse(SortAscending(Reverse(s)))

\* A mutant of run_rules: the unsorted list is handed back.
run_rules_returns_fired(fs, rs) ==
    LET f == fired_of(fs, rs)
    IN  IF f.raised THEN [raised |-> TRUE, decision |-> Unset, fired |-> <<>>]
        ELSE IF f.list = <<>>
            THEN [raised |-> FALSE, decision |-> NO_RULE, fired |-> <<>>]
        ELSE
            LET sorted_list == sorted_reverse(f.list)
                best_rule == Get(sorted_list[1], "action", NO_ACTION)
            IN  [raised |-> FALSE, decision |-> best_rule, fired |-> f.list]

\* What run_rules hands back: (decision, fired), or an exception.
run_rules(fs, rs) ==
    LET f == fired_of(fs, rs)
    IN  IF f.raised THEN [raised |-> TRUE, decision |-> Unset, fired |-> <<>>]
        ELSE IF f.list = <<>>
            THEN [raised |-> FALSE, decision |-> NO_RULE, fired |-> <<>>]
        ELSE
            LET sorted_list == sorted_reverse(f.list)
                best_rule == Get(sorted_list[1], "action", NO_ACTION)
            IN  [raised |-> FALSE, decision |-> best_rule, fired |-> sorted_list]

\* A mutant of arguments_after_run: the rule list is sorted in place
\* (rules.sort) instead of copied.
arguments_after_sort_in_place(fs, rs) == [facts |-> fs, rules |-> sorted_reverse(rs)]

\* The caller's arguments once run_rules has ended: the comprehension and
\* sorted() build new lists, nothing is assigned into facts or rules.
arguments_after_run(fs, rs) == [facts |-> fs, rules |-> rs]

(***************************************************************************)
(* DEFAULT_RULES (cgpa in tenths; the dash of the fourth name in ASCII)     *)
(***************************************************************************)
Cond(field, op, val) == <<S(field), S(op), I(val)>>

DEFAULT_RULES == <<
    [name |-> "Top merit candidate",
     priority |-> 100,
     conditions |-> << Cond("cgpa", ">=", 37),
                       Cond("co_curricular_score", ">=", 80),
                       Cond("family_income", "<=", 8000),
                       Cond("disciplinary_actions", "==", 0) >>,
     action |-> [decision |-> "AWARD_FULL",
                 reason |-> "Excellent academic & co-curricular performance, with acceptable need"]],
    [name |-> "Good candidate - partial scholarship",
     priority |-> 80,
     conditions |-> << Cond("cgpa", ">=", 33),
                       Cond("co_curricular_score", ">=", 60),
                       Cond("family_income", "<=", 12000),
                       Cond("disciplinary_actions", "<=", 1) >>,
     action |-> [decision |-> "AWARD_PARTIAL",
                 reason |-> "Good academic & involvement record with moderate need"]],
    [name |-> "Need-based review",
     priority |-> 70,
     conditions |-> << Cond("cgpa", ">=", 25),
                       Cond("family_income", "<=", 4000) >>,
     action |-> [decision |-> "REVIEW",
                 reason |-> "High need but borderline academic score"]],
    [name |-> "Low CGPA - not eligible",
     priority |-> 95,
     conditions |-> << Cond("cgpa", "<", 25) >>,
     action |-> [decision |-> "REJECT",
                 reason |-> "CGPA below minimum scholarship requirement"]],
    [name |-> "Serious disciplinary record",
     priority |-> 90,
     conditions |-> << Cond("disciplinary_actions", ">=", 2) >>,
     action |-> [decision |-> "REJECT",
                 reason |-> "Too many disciplinary records"]] >>

(***************************************************************************)
(* The arguments the callers range over.                                   *)
(***************************************************************************)
IntValues == {I(n) : n \in 0..MaxInt}
StrValues == {S("A"), S("B"), S("AB")}
ListValues == {L(<<>>), L(<<I(0)>>), L(<<S("A"), I(MaxInt)>>)}
Literals == IntValues \cup StrValues \cup ListValues

FactKeys == {"cgpa", "status"}
FactValues == IntValues \cup {S("A"), S("B"), L(<<I(0)>>)}
FactSets == UNION {[K -> FactValues] : K \in SUBSET FactKeys}

\* Fields: two keys the facts may hold, one they never hold, an int, a list.
FieldValues == {S("cgpa"), S("status"), S("age"), I(0), L(<<S("cgpa")>>)}
\* Operators: the registered symbols, an unknown symbol, an int, a list.
OpValues == {S(o) : o \in OpSymbols} \cup {S("~"), I(0), L(<<S("==")>>)}

Triples == {<<f, o, v>> : f \in FieldValues, o \in OpValues, v \in Literals}
Conditions ==
    Triples
    \cup {<<>>}
    \cup {<<f>> : f \in FieldValues}
    \cup {<<f, o>> : f \in FieldValues, o \in OpValues}
    \cup {c \o <<I(0)>> : c \in Triples}

\* The conditions generated rules are made of.
CondHigh == <<S("cgpa"), S(">="), I(MaxInt)>>
CondMember == <<S("cgpa"), S("in"), L(<<I(0)>>)>>
CondStatus == <<S("status"), S("=="), S("A")>>
CondNonZero == <<S("cgpa"), S("!="), I(0)>>
CondMixedTypes == <<S("cgpa"), S("<"), S("A")>>
CondShort == <<S("cgpa"), S(">=")>>
CondListField == <<L(<<S("cgpa")>>), S("=="), I(0)>>
CondListOp == <<S("cgpa"), L(<<S("==")>>), I(0)>>
CondPool ==
    {CondHigh, CondMember, CondStatus, CondNonZero, CondMixedTypes, CondShort,
     CondListField, CondListOp}

SeqsUpTo(set, n) == UNION {[1..k -> set] : k \in 0..n}

\* The rules passed to rule_matches: no conditions field, or up to MaxConds
\* conditions of the pool.
MatchRules ==
    {[name |-> "r"]}
    \cup {[name |-> "r", conditions |-> cs] : cs \in SeqsUpTo(CondPool, MaxConds)}

\* The rules passed to run_rules: each optional field present or missing.
RunConditions == {<<CondHigh>>, <<CondShort>>, <<CondHigh, CondListField>>}
Actions ==
    {[decision |-> "AWARD", reason |-> "a"], [decision |-> "REJECT", reason |-> "r"]}
WithConditions(rs) ==
    rs \cup {[k \in DOMAIN r \cup {"conditions"} |->
                IF k = "conditions" THEN cs ELSE r[k]] : r \in rs, cs \in RunConditions}
WithPriority(rs) ==
    rs \cup {[k \in DOMAIN r \cup {"priority"} |->
                IF k = "priority" THEN p ELSE r[k]] : r \in rs, p \in 0..MaxPriority}
WithAction(rs) ==
    rs \cup {[k \in DOMAIN r \cup {"action"} |->
                IF k = "action" THEN a ELSE r[k]] : r \in rs, a \in Actions}
RunRuleSet == WithAction(WithPriority(WithConditions({[name |-> "r"]})))
RunRuleLists == SeqsUpTo(RunRuleSet, MaxRules)

Scenario4Facts ==
    [cgpa |-> I(39), family_income |-> I(2000), co_curricular_score |-> I(90),
     disciplinary_actions |-> I(3)]
RunFacts == {[cgpa |-> I(0)], [cgpa |-> I(MaxInt)], Scenario4Facts}

(***************************************************************************)
(* Spec: the front end calling run_rules again and again.                  *)
(***************************************************************************)
NoCond == <<>>
NoRule == [name |-> ""]

Init ==
    /\ facts \in RunFacts
    /\ rules \in RunRuleLists \cup {DEFAULT_RULES}
    /\ cond = NoCond
    /\ rule = NoRule
    /\ pc = "ready"
    /\ raised = FALSE
    /\ value = FALSE
    /\ decision = Unset
    /\ fired_sorted = <<>>

\* action, fired = run_rules(facts, rules)
RunRules ==
    /\ pc = "ready"
    /\ LET out == run_rules(facts, rules)
           args == arguments_after_run(facts, rules)
       IN  /\ raised' = out.raised
           /\ decision' = out.decision
           /\ fired_sorted' = out.fired
           /\ facts' = args.facts
           /\ rules' = args.rules
    /\ pc' = "done"
    /\ UNCHANGED <<cond, rule, value>>

\* The results of the call that ended are dropped before the next one.
Forget ==
    /\ pc' = "ready"
    /\ raised' = FALSE
    /\ decision' = Unset
    /\ fired_sorted' = <<>>
    /\ UNCHANGED <<cond, rule, value>>

\* The sidebar: new facts for the next evaluation.
EditFacts ==
    /\ pc = "done"
    /\ facts' \in RunFacts
    /\ UNCHANGED rules
    /\ Forget

\* The JSON editor: one more rule for the next evaluation.
AppendRule ==
    /\ pc = "done"
    /\ Len(rules) < MaxRules
    /\ \E r \in RunRuleSet : rules' = Append(rules, r)
    /\ UNCHANGED facts
    /\ Forget

\* The JSON editor holds no list: the front end reverts to DEFAULT_RULES.
RevertToDefaultRules ==
    /\ pc = "done"
    /\ rules' = DEFAULT_RULES
    /\ UNCHANGED facts
    /\ Forget

Next == RunRules \/ EditFacts \/ AppendRule \/ RevertToDefaultRules

Spec == Init /\ [][Next]_vars

(***************************************************************************)
(* SpecCond: evaluate_condition applied to one condition.                  *)
(***************************************************************************)
InitCond ==
    /\ facts \in FactSets
    /\ cond \in Conditions
    /\ rules = <<>>
    /\ rule = NoRule
    /\ pc = "ready"
    /\ raised = FALSE
    /\ value = FALSE
    /\ decision = Unset
    /\ fired_sorted = <<>>

CallEvaluateCondition ==
    /\ pc = "ready"
    /\ LET out == evaluate_condition(facts, cond)
       IN  /\ raised' = out.raised
           /\ value' = out.value
    /\ pc' = "done"
    /\ UNCHANGED <<facts, rules, cond, rule, decision, fired_sorted>>

NextCond == CallEvaluateCondition

SpecCond == InitCond /\ [][NextCond]_vars

(***************************************************************************)
(* SpecMatch: rule_matches applied to one rule.                            *)
(***************************************************************************)
InitMatch ==
    /\ facts \in FactSets
    /\ rule \in MatchRules
    /\ rules = <<>>
    /\ cond = NoCond
    /\ pc = "ready"
    /\ raised = FALSE
    /\ value = FALSE
    /\ decision = Unset
    /\ fired_sorted = <<>>

CallRuleMatches ==
    /\ pc = "ready"
    /\ LET out == rule_matches(facts, rule)
       IN  /\ raised' = out.raised
           /\ value' = out.value
    /\ pc' = "done"
    /\ UNCHANGED <<facts, rules, cond, rule, decision, fired_sorted>>

NextMatch == CallRuleMatches

SpecMatch == InitMatch /\ [][NextMatch]_vars

(***************************************************************************)
(* The claims.                                                             *)
(***************************************************************************)
\* A rule's priority, a missing one counting as 0.
ClaimPriority(r) == IF "priority" \in DOMAIN r THEN r.priority ELSE 0

\* A rule's action, a missing one replaced by the NO_ACTION record.
ClaimAction(r) ==
    IF "action" \in DOMAIN r THEN r.action ELSE [decision |-> "NO_ACTION", reason |-> "-"]

\* A rule's condition sequence, a missing one counting as empty.
ClaimConditions(r) == IF "conditions" \in DOMAIN r THEN r.conditions ELSE <<>>

\* The rule matches the current facts: rule_matches returns True.
Matches(r) == LET m == rule_matches(facts, r) IN ~m.raised /\ m.value

\* The condition evaluates to true under the current facts.
HoldsCond(c) == LET e == evaluate_condition(facts, c) IN ~e.raised /\ e.value

\* The number of places of s that hold r.
Count(s, r) == Cardinality({i \in 1..Len(s) : s[i] = r})

\* The matching rules of the input, in input order.
MatchingRules == LET Test(r) == Matches(r) IN SelectSeq(rules, Test)

\* The elements of s of priority p, in the order of s.
OfPriority(s, p) == LET Test(r) == ClaimPriority(r) = p IN SelectSeq(s, Test)

\* run_rules has returned (decision, fired_sorted).
Returned == pc = "done" /\ ~raised

\* C1: whenever at least one rule of the input matches, run_rules returns as
\* decision the action (NO_ACTION when the rule has none) of a matching rule
\* whose priority, a missing one counting as 0, is at least that of every
\* other matching rule.
DecisionIsTopPriorityAction ==
    (pc = "done" /\ \E i \in 1..Len(rules) : Matches(rules[i]))
    => /\ ~raised
       /\ \E i \in 1..Len(rules) :
            /\ Matches(rules[i])
            /\ \A j \in 1..Len(rules) :
                 Matches(rules[j]) => ClaimPriority(rules[i]) >= ClaimPriority(rules[j])
            /\ decision = ClaimAction(rules[i])

\* C2: in the fired list run_rules returns, the matching rules of one
\* priority stand in their input order, and the decision is the action of
\* the first rule of the input among the matching rules of greatest
\* priority.
FiredListIsStable ==
    Returned
    => /\ \A i \in 1..Len(rules) :
            LET p == ClaimPriority(rules[i])
            IN  OfPriority(fired_sorted, p) = OfPriority(MatchingRules, p)
       /\ \A i \in 1..Len(rules) :
            ( /\ Matches(rules[i])
              /\ \A j \in 1..Len(rules) :
                   Matches(rules[j]) =>
                     \/ ClaimPriority(rules[j]) < ClaimPriority(rules[i])
                     \/ ClaimPriority(rules[j]) = ClaimPriority(rules[i]) /\ j >= i )
            => decision = ClaimAction(rules[i])

\* Witness of C2: a returned call whose input holds two different matching
\* rules of one priority, the first of them of the greatest priority.
StableWitness ==
    /\ Returned
    /\ \E i, j \in 1..Len(rules) :
         /\ i < j
         /\ rules[i] # rules[j]
         /\ ClaimAction(rules[i]) # ClaimAction(rules[j])
         /\ Matches(rules[i])
         /\ Matches(rules[j])
         /\ ClaimPriority(rules[i]) = ClaimPriority(rules[j])
         /\ fired_sorted[1] = rules[i]

\* C3: the fired list run_rules returns holds every matching rule as often
\* as the input does and no other rule, and its priorities never increase
\* from one element to the next.
FiredListIsSortedPermutation ==
    Returned
    => /\ \A i \in 1..Len(rules) :
            Count(fired_sorted, rules[i]) =
                (IF Matches(rules[i]) THEN Count(rules, rules[i]) ELSE 0)
       /\ \A k \in 1..Len(fired_sorted) : Count(rules, fired_sorted[k]) > 0
       /\ Len(fired_sorted) = Len(MatchingRules)
       /\ \A k \in 1..(Len(fired_sorted) - 1) :
            ClaimPriority(fired_sorted[k]) >= ClaimPriority(fired_sorted[k + 1])

\* Witness of C3: a returned call that left a rule out and put the matching
\* rules into another order than the input's.
PermutationWitness ==
    /\ Returned
    /\ Len(fired_sorted) >= 2
    /\ Len(fired_sorted) < Len(rules)
    /\ fired_sorted # MatchingRules

\* C4: whenever no rule of the input matches, the empty input included,
\* run_rules returns the NO_RULE sentinel and an empty fired list.
NoMatchGivesSentinel ==
    (pc = "done" /\ \A i \in 1..Len(rules) : ~Matches(rules[i]))
    => /\ ~raised
       /\ decision = [decision |-> "NO_RULE", reason |-> "No rules matched"]
       /\ fired_sorted = <<>>

\* The condition is one C5 speaks of: not of length 3, or its field no key
\* of the facts, or its operator none of the eight registered symbols.
FailClosedCase(c) ==
    \/ Len(c) # 3
    \/ ~(c[1].t = "str" /\ c[1].s \in DOMAIN facts)
    \/ ~(c[2].t = "str" /\ c[2].s \in {"==", "!=", ">", ">=", "<", "<=", "in", "not_in"})

\* C5: evaluate_condition returns False for every condition whose length is
\* not 3, whose field is absent from the facts or whose operator is not a
\* registered symbol, whatever its other components are.
FailClosed ==
    (pc = "done" /\ FailClosedCase(cond)) => (~raised /\ value = FALSE)

\* C6: evaluate_condition returns a bool and never raises for any condition
\* of three elements, and returns False when applying the operator raises.
EvaluationIsTotal ==
    (pc = "done" /\ Len(cond) = 3)
    => /\ ~raised
       /\ value \in BOOLEAN
       /\ ( /\ ~FailClosedCase(cond)
            /\ OPS(cond[2].s, facts[cond[1].s], cond[3]).raised ) => value = FALSE

\* C7: run_rules raises for no rule list, and a rule holding a condition
\* that does not evaluate to true is not in the fired list.
RunRulesNeverRaises ==
    pc = "done"
    => /\ ~raised
       /\ \A i \in 1..Len(rules) :
            (\E k \in 1..Len(ClaimConditions(rules[i])) :
                ~HoldsCond(ClaimConditions(rules[i])[k]))
            => Count(fired_sorted, rules[i]) = 0

\* C8: rule_matches returns True exactly when every condition of the rule
\* evaluates to true, so always for a rule with no condition or with no
\* conditions field.
RuleMatchesIsConjunction ==
    pc = "done"
    => /\ (~raised /\ value) <=>
            \A k \in 1..Len(ClaimConditions(rule)) : HoldsCond(ClaimConditions(rule)[k])
       /\ ClaimConditions(rule) = <<>> => (~raised /\ value)

\* Witness of C8: rule_matches returned True for a rule of several
\* conditions.
ConjunctionWitness ==
    /\ pc = "done"
    /\ ~raised
    /\ value
    /\ "conditions" \in DOMAIN rule
    /\ Len(rule.conditions) >= 2
    /\ rule.conditions[1] # rule.conditions[2]

\* The names, and the decisions, of the rules of a list.
NamesOf(s) == {s[k].name : k \in 1..Len(s)}
DecisionsOf(s) == {ClaimAction(s[k]).decision : k \in 1..Len(s)}

\* C9: on DEFAULT_RULES and the facts of scenario 4, "Top merit candidate"
\* does not fire, "Serious disciplinary record" (priority 90) fires, the
\* decision is REJECT and no rule awarding a scholarship is fired.
Scenario4Rejects ==
    (pc = "done" /\ rules = DEFAULT_RULES /\ facts = Scenario4Facts)
    => /\ ~raised
       /\ "Top merit candidate" \notin NamesOf(fired_sorted)
       /\ \E k \in 1..Len(fired_sorted) :
            /\ fired_sorted[k].name = "Serious disciplinary record"
            /\ fired_sorted[k].priority = 90
       /\ decision.decision = "REJECT"
       /\ DecisionsOf(fired_sorted) \cap {"AWARD_FULL", "AWARD_PARTIAL"} = {}

\* Witness of C9: the call of scenario 4 has returned.
Scenario4Witness ==
    /\ Returned
    /\ rules = DEFAULT_RULES
    /\ facts = Scenario4Facts
    /\ Len(fired_sorted) = 2

====
